---------------------------- MODULE Spec2Model ----------------------------
(***************************************************************************)
(* Model of the healthcare insurance cost analysis repository:             *)
(*   - healthcare_dashboard.py: a Streamlit script.  Every interaction     *)
(*     re-executes the whole script against the cached dataset, so every   *)
(*     action below is one complete script run (load, filter, metrics, age *)
(*     groups and, when the button was pressed, the premium calculation).  *)
(*   - pythonprogramtocleadataforpowerbiandalsogroupcategories.py: a batch *)
(*     script, modelled statement by statement.                            *)
(*                                                                         *)
(* Numbers.  Money in the dashboard tables is whole dollars; bmi is in     *)
(* tenths (30.0 is 300); the premium total is in cents, because the        *)
(* regional multipliers have two decimals (1.15 is 115 hundredths); the    *)
(* bucketizer's charges are in thousandths of a dollar so that rounding to *)
(* two decimals does something.  A quotient of means is kept as an exact   *)
(* fraction [n, d]; d = 0 records a division by zero.                      *)
(* Labels that the source writes with an en dash are written with "-".     *)
(***************************************************************************)
EXTENDS Integers, Sequences, FiniteSets, TLC

VARIABLES
    files,              \* the environment: candidate file name -> [status, table]
    cache,              \* st.cache_data store of load_data: [loaded, value]
    loaded_from,        \* which candidate load_data returned, "sample", or "" before the load
    load_msg,           \* st.success / st.warning / st.error raised by load_data
    df,                 \* the script's df after the last run
    smoker_filter, region_filter, age_range, bmi_range,       \* sidebar widgets
    filtered_df,        \* filtered_df after the last run
    smoker_multiplier,  \* fraction [n, d]
    filtered_df_copy,   \* the table that received the age_group column
    age_group_avg,      \* sequence of [age_group, charges] (charges a fraction)
    calc_age, calc_bmi, calc_smoker, calc_region, calc_children,  \* calculator widgets
    button,             \* whether the last run was triggered by Calculate Premium
    total_premium,      \* cents; 0 when the last run did not compute it
    breakdown,          \* what the Premium Breakdown expander shows
    risk_factors,       \* sequence of flags
    pc,                 \* the batch script: the statement to execute next
    in_row,             \* a row of Star_cleaned_insurance.csv
    out_row,            \* the same row of the script's df
    out_csv             \* powerbigroupeddata.csv: the rows written

dashVars == <<files, cache, loaded_from, load_msg, df, smoker_filter, region_filter,
              age_range, bmi_range, filtered_df, smoker_multiplier, filtered_df_copy,
              age_group_avg, calc_age, calc_bmi, calc_smoker, calc_region,
              calc_children, button, total_premium, breakdown, risk_factors>>
batchVars == <<pc, in_row, out_row, out_csv>>
vars == <<dashVars, batchVars>>

----------------------------------------------------------------------------
(* Helpers on sequences and fractions *)

RECURSIVE SumSeq(_)
SumSeq(s) == IF s = <<>> THEN 0 ELSE Head(s) + SumSeq(Tail(s))

Column(t, c) == [i \in 1..Len(t) |-> t[i][c]]

SetMin(S) == CHOOSE x \in S : \A y \in S : x <= y
SetMax(S) == CHOOSE x \in S : \A y \in S : x >= y

\* F applied to the value of v, v being evaluated once (Python evaluates the
\* right-hand side of an assignment once and binds the result to the name)
Bind(v, F(_)) == CHOOSE y \in {F(x) : x \in {v}} : TRUE

Frac(n, d) == [n |-> n, d |-> d]
Zero == Frac(0, 1)
One == Frac(1, 1)

\* Series.mean() of a non-empty series
Mean(s) == Frac(SumSeq(s), Len(s))

\* a / b on floats; a zero divisor is recorded as d = 0
Divide(a, b) == IF b.n = 0 THEN Frac(a.n, 0) ELSE Frac(a.n * b.d, a.d * b.n)

Positive(a) == a.d > 0 /\ a.n > 0

FracEq(a, b) == a.d # 0 /\ b.d # 0 /\ a.n * b.d = b.n * a.d

----------------------------------------------------------------------------
(* load_data and create_sample_data *)

file_options == << "insurance_etl_final.csv", "insurance_dashboard_ready.csv",
                   "insurancedashboard.csv", "insurance_clean_final.csv",
                   "insurance.csv" >>

Row(a, b, s, r, c) == [age |-> a, bmi |-> b, smoker |-> s, region |-> r, charges |-> c]

\* The seeded generator returns the same table on every call; a short table
\* inside the generator's ranges stands for its 1000 rows.
create_sample_data ==
    << Row(56, 263, "no", "southeast", 11915),
       Row(19, 241, "yes", "northwest", 28300) >>

\* pd.read_csv(file): "ok" returns the table, "absent" raises FileNotFoundError,
\* "malformed" raises another exception (ParserError, EmptyDataError, ...).
read_csv(fs, file) == fs[file]

\* The for loop of load_data from candidate i on.  Only FileNotFoundError is
\* caught inside the loop; any other exception leaves the loop and is caught by
\* the outer handler, which reports it and returns the sample data.
RECURSIVE load_from(_, _)
load_from(fs, i) ==
    IF i > Len(file_options)
    THEN [value |-> create_sample_data, from |-> "sample", msg |-> "warning"]
    ELSE LET r == read_csv(fs, file_options[i]) IN
         CASE r.status = "ok" ->
                  [value |-> r.table, from |-> file_options[i], msg |-> "success"]
           [] r.status = "absent" -> load_from(fs, i + 1)
           [] OTHER ->
                  [value |-> create_sample_data, from |-> "sample", msg |-> "error"]

load_data(fs) == load_from(fs, 1)


----------------------------------------------------------------------------
(* Data frames.  A run's data frames live in a heap (a sequence of tables);  *)
(* a Python name holds a reference into it, so that a column assignment      *)
(* changes exactly the object the name refers to.                            *)

\* mutant of Copy: the name is bound to the same object (b = a, not b = a.copy())
CopyAlias(h, r) == [heap |-> h, ref |-> r]

\* DataFrame.copy(): a new object with the same rows
Copy(h, r) == [heap |-> Append(h, h[r]), ref |-> Len(h) + 1]

RECURSIVE SelectByMask(_, _)
SelectByMask(t, mask) ==
    IF t = <<>> THEN <<>>
    ELSE LET rest == SelectByMask(Tail(t), Tail(mask)) IN
         IF Head(mask) THEN <<Head(t)>> \o rest ELSE rest

\* frame[mask]: a new object holding the rows whose mask entry is True, in order
BoolIndex(h, r, mask) == [heap |-> Append(h, SelectByMask(h[r], mask)), ref |-> Len(h) + 1]

\* frame[col] = values: in place, on the object the name refers to
SetColumn(h, r, col, values) ==
    [h EXCEPT ![r] = [i \in 1..Len(h[r]) |-> (col :> values[i]) @@ h[r][i]]]

\* mutant of RangeMask: strict comparisons
RangeMaskExclusive(t, ar, br) ==
    [i \in 1..Len(t) |->
        /\ t[i].age > ar[1]
        /\ t[i].age < ar[2]
        /\ t[i].bmi > br[1]
        /\ t[i].bmi < br[2]]

\* the four range comparisons of lines 142-145, combined with &
RangeMask(t, ar, br) ==
    [i \in 1..Len(t) |->
        /\ t[i].age >= ar[1]
        /\ t[i].age <= ar[2]
        /\ t[i].bmi >= br[1]
        /\ t[i].bmi <= br[2]]

EqMask(t, col, v) == [i \in 1..Len(t) |-> t[i][col] = v]

\* lines 139-151: filtered_df, as [heap, ref]
ApplyFilters(h, dfRef, sf, rf, ar, br) ==
    Bind(Copy(h, dfRef), LAMBDA s0 :
    Bind(BoolIndex(s0.heap, s0.ref, RangeMask(s0.heap[s0.ref], ar, br)), LAMBDA s1 :
    Bind(IF sf # "All"
         THEN BoolIndex(s1.heap, s1.ref, EqMask(s1.heap[s1.ref], "smoker", sf))
         ELSE s1, LAMBDA s2 :
    IF rf # "All"
    THEN BoolIndex(s2.heap, s2.ref, EqMask(s2.heap[s2.ref], "region", rf))
    ELSE s2)))

\* mutant of GuardedRatio: the division without its guard
UnguardedRatio(smoker_yes_mean, smoker_no_mean) == Divide(smoker_yes_mean, smoker_no_mean)

\* line 161
GuardedRatio(smoker_yes_mean, smoker_no_mean) ==
    IF Positive(smoker_no_mean) THEN Divide(smoker_yes_mean, smoker_no_mean) ELSE Zero

\* lines 153-163
SmokerMultiplier(fd) ==
    IF Len(fd) > 0
    THEN Bind(Column(SelectByMask(fd, EqMask(fd, "smoker", "yes")), "charges"), LAMBDA smoker_yes_data :
         Bind(Column(SelectByMask(fd, EqMask(fd, "smoker", "no")), "charges"), LAMBDA smoker_no_data :
         Bind(IF Len(smoker_yes_data) > 0 THEN Mean(smoker_yes_data) ELSE Zero, LAMBDA smoker_yes_mean :
         Bind(IF Len(smoker_no_data) > 0 THEN Mean(smoker_no_data) ELSE One, LAMBDA smoker_no_mean :
         GuardedRatio(smoker_yes_mean, smoker_no_mean)))))
    ELSE Zero

\* pd.cut(age, bins=[17, 30, 40, 50, 65], labels=[...], include_lowest=True):
\* right defaults to True, so bin k is (bins[k], bins[k+1]], the first one
\* closed on the left as well; a value outside every bin is NaN.
cut_bins == <<17, 30, 40, 50, 65>>
cut_labels == <<"18-29", "30-39", "40-49", "50+">>

cut(x) ==
    IF x < cut_bins[1] \/ x > cut_bins[5] THEN "NaN"
    ELSE cut_labels[SetMin({k \in 1..4 : x <= cut_bins[k + 1]})]

\* groupby('age_group', observed=True)['charges'].mean().reset_index(): one row
\* per category that occurs, in category order; NaN keys are dropped
RECURSIVE GroupMeanFrom(_, _)
GroupMeanFrom(t, k) ==
    IF k > Len(cut_labels) THEN <<>>
    ELSE Bind(SelectByMask(t, EqMask(t, "age_group", cut_labels[k])), LAMBDA members :
         (IF Len(members) > 0
          THEN <<[age_group |-> cut_labels[k], charges |-> Mean(Column(members, "charges"))]>>
          ELSE <<>>) \o GroupMeanFrom(t, k + 1))

\* lines 293-303, as [heap, ref, avg]
AgeGroups(h, filteredRef) ==
    Bind(Copy(h, filteredRef), LAMBDA c :
    Bind(Column(c.heap[c.ref], "age"), LAMBDA ages :
    Bind(SetColumn(c.heap, c.ref, "age_group", [i \in 1..Len(ages) |-> cut(ages[i])]), LAMBDA h2 :
    [heap |-> h2, ref |-> c.ref, avg |-> GroupMeanFrom(h2[c.ref], 1)])))

----------------------------------------------------------------------------
(* Premium calculator, lines 396-449 *)

base_premium(smoker) == IF smoker = "no" THEN 8434 ELSE 32050

\* mutant of age_adjustment: the reference age 39.2 written as 392
age_adjustment_slip(age) == (age - 392) * 250

\* (calc_age - 39.2) * 250, computed in tenths of a year; whole dollars for an
\* integer age
age_adjustment(age) == ((age * 10 - 392) * 250) \div 10

\* mutant of bmi_adjustment: > for >=
bmi_adjustment_strict(bmi) == IF bmi > 300 THEN 4623 ELSE 0

bmi_adjustment(bmi) == IF bmi >= 300 THEN 4623 ELSE 0

children_adjustment(children) == children * 150

\* regional_multipliers.get(calc_region, 1.0), in hundredths
regional_multipliers(region) ==
    CASE region = "southeast" -> 115
      [] region = "northeast" -> 108
      [] region = "northwest" -> 102
      [] region = "southwest" -> 100
      [] OTHER -> 100

Max(a, b) == IF a >= b THEN a ELSE b

\* lines 399-421; total in cents
Premium(age, bmi, smoker, region, children) ==
    LET b == base_premium(smoker)
        a == age_adjustment(age)
        m == bmi_adjustment(bmi)
        c == children_adjustment(children)
        subtotal == b + a + m + c
        mult == regional_multipliers(region)
    IN [base |-> b, age_adj |-> a, bmi_adj |-> m, children_adj |-> c,
        multiplier |-> mult, total |-> Max(1000 * 100, subtotal * mult)]

NoBreakdown == [base |-> 0, age_adj |-> 0, bmi_adj |-> 0, children_adj |-> 0,
                multiplier |-> 0, total |-> 0]

\* mutant of RiskFactors: the age flag from 51 on
RiskFactorsOver50(age, bmi, smoker) ==
    (IF smoker = "yes" THEN <<"smoking">> ELSE <<>>)
      \o (IF bmi >= 300 THEN <<"bmi">> ELSE <<>>)
      \o (IF age > 50 THEN <<"age">> ELSE <<>>)

\* lines 427-433
RiskFactors(age, bmi, smoker) ==
    (IF smoker = "yes" THEN <<"smoking">> ELSE <<>>)
      \o (IF bmi >= 300 THEN <<"bmi">> ELSE <<>>)
      \o (IF age >= 50 THEN <<"age">> ELSE <<>>)


----------------------------------------------------------------------------
(* One execution of healthcare_dashboard.py *)

\* sorted(df['region'].unique()): alphabetical order of the regions that occur
RegionOrder == <<"midwest", "northeast", "northwest", "southeast", "southwest">>

ColumnSet(t, c) == {t[i][c] : i \in 1..Len(t)}

SortedRegions(t) == SelectSeq(RegionOrder, LAMBDA r : r \in ColumnSet(t, "region"))

\* The script from line 101 to its end, on the value load_data returned (each
\* call of the cached function hands out the stored table), with the widgets'
\* values and whether the Calculate Premium button triggered the run.
RunScript(c, sf, rf, ar, br, ca, cb, cs, cr, cc, pressed) ==
    Bind(ApplyFilters(<<c>>, 1, sf, rf, ar, br), LAMBDA f :
    Bind(SmokerMultiplier(f.heap[f.ref]), LAMBDA mult :
    Bind(IF Len(f.heap[f.ref]) > 0
         THEN AgeGroups(f.heap, f.ref)
         ELSE [heap |-> f.heap, ref |-> 0, avg |-> <<>>], LAMBDA g :
    Bind(IF pressed THEN Premium(ca, cb, cs, cr, cc) ELSE NoBreakdown, LAMBDA q :
    [df |-> g.heap[1],
     filtered_df |-> g.heap[f.ref],
     smoker_multiplier |-> mult,
     filtered_df_copy |-> IF g.ref = 0 THEN <<>> ELSE g.heap[g.ref],
     age_group_avg |-> g.avg,
     breakdown |-> q,
     total_premium |-> q.total,
     risk_factors |-> IF pressed THEN RiskFactors(ca, cb, cs) ELSE <<>>]))))

\* a run with the given widget values: the widgets keep them, the outputs are
\* those of the run
Rerun(c, sf, rf, ar, br, ca, cb, cs, cr, cc, pressed) ==
    \E r \in {RunScript(c, sf, rf, ar, br, ca, cb, cs, cr, cc, pressed)} :
    /\ smoker_filter' = sf
    /\ region_filter' = rf
    /\ age_range' = ar
    /\ bmi_range' = br
    /\ calc_age' = ca
    /\ calc_bmi' = cb
    /\ calc_smoker' = cs
    /\ calc_region' = cr
    /\ calc_children' = cc
    /\ button' = pressed
    /\ df' = r.df
    /\ filtered_df' = r.filtered_df
    /\ smoker_multiplier' = r.smoker_multiplier
    /\ filtered_df_copy' = r.filtered_df_copy
    /\ age_group_avg' = r.age_group_avg
    /\ breakdown' = r.breakdown
    /\ total_premium' = r.total_premium
    /\ risk_factors' = r.risk_factors

\* calculator controls (lines 353-389)
CalcAgeMin == 18
CalcAgeMax == 64
CalcAgeDefault == 35
CalcBmiMin == 150
CalcBmiMax == 500
CalcBmiDefault == 250
CalcChildrenMax == 5

\* the bmi values typed into the calculator: the two values at the obesity
\* threshold and one above it (the default is below it)
CalcBmiValues == {299, 300, 320}

\* The first run of a session: load_data misses the cache and executes, every
\* widget takes its default.
FirstRun ==
    /\ ~cache.loaded
    /\ \E l \in {load_data(files)} :
          /\ cache' = [loaded |-> TRUE, value |-> l.value]
          /\ loaded_from' = l.from
          /\ load_msg' = l.msg
          /\ Rerun(l.value, "All", "All",
                   <<SetMin(ColumnSet(l.value, "age")), SetMax(ColumnSet(l.value, "age"))>>,
                   <<SetMin(ColumnSet(l.value, "bmi")), SetMax(ColumnSet(l.value, "bmi"))>>,
                   CalcAgeDefault, CalcBmiDefault, "no", SortedRegions(l.value)[1], 0, FALSE)
    /\ UNCHANGED <<files, pc, in_row, out_row, out_csv>>

\* a later run: load_data hits the cache
Interact(sf, rf, ar, br, ca, cb, cs, cr, cc, pressed) ==
    /\ cache.loaded
    /\ Rerun(cache.value, sf, rf, ar, br, ca, cb, cs, cr, cc, pressed)
    /\ UNCHANGED <<files, cache, loaded_from, load_msg, pc, in_row, out_row, out_csv>>

ChangeSmokerFilter ==
    \E v \in {"All", "yes", "no"} :
        Interact(v, region_filter, age_range, bmi_range,
                 calc_age, calc_bmi, calc_smoker, calc_region, calc_children, FALSE)

ChangeRegionFilter ==
    /\ cache.loaded
    /\ \E v \in {"All"} \cup ColumnSet(cache.value, "region") :
        Interact(smoker_filter, v, age_range, bmi_range,
                 calc_age, calc_bmi, calc_smoker, calc_region, calc_children, FALSE)

\* The sliders run from the column's minimum to its maximum.  The ends tried
\* are the values that occur in the column: an end between two of them selects
\* the same rows as the next occurring value.
ChangeAgeRange ==
    /\ cache.loaded
    /\ \E lo, hi \in ColumnSet(cache.value, "age") :
        /\ lo <= hi
        /\ Interact(smoker_filter, region_filter, <<lo, hi>>, bmi_range,
                    calc_age, calc_bmi, calc_smoker, calc_region, calc_children, FALSE)

ChangeBmiRange ==
    /\ cache.loaded
    /\ \E lo, hi \in ColumnSet(cache.value, "bmi") :
        /\ lo <= hi
        /\ Interact(smoker_filter, region_filter, age_range, <<lo, hi>>,
                    calc_age, calc_bmi, calc_smoker, calc_region, calc_children, FALSE)

\* the + and - buttons of the number input (step 1), within min_value..max_value
ChangeCalcAge ==
    \E v \in {calc_age - 1, calc_age + 1} \cap (CalcAgeMin..CalcAgeMax) :
        Interact(smoker_filter, region_filter, age_range, bmi_range,
                 v, calc_bmi, calc_smoker, calc_region, calc_children, FALSE)

ChangeCalcBmi ==
    \E v \in CalcBmiValues :
        Interact(smoker_filter, region_filter, age_range, bmi_range,
                 calc_age, v, calc_smoker, calc_region, calc_children, FALSE)

ChangeCalcSmoker ==
    \E v \in {"no", "yes"} :
        Interact(smoker_filter, region_filter, age_range, bmi_range,
                 calc_age, calc_bmi, v, calc_region, calc_children, FALSE)

ChangeCalcRegion ==
    /\ cache.loaded
    /\ \E v \in ColumnSet(cache.value, "region") :
        Interact(smoker_filter, region_filter, age_range, bmi_range,
                 calc_age, calc_bmi, calc_smoker, v, calc_children, FALSE)

ChangeCalcChildren ==
    \E v \in {calc_children - 1, calc_children + 1} \cap (0..CalcChildrenMax) :
        Interact(smoker_filter, region_filter, age_range, bmi_range,
                 calc_age, calc_bmi, calc_smoker, calc_region, v, FALSE)

PressCalculate ==
    Interact(smoker_filter, region_filter, age_range, bmi_range,
             calc_age, calc_bmi, calc_smoker, calc_region, calc_children, TRUE)


----------------------------------------------------------------------------
(* pythonprogramtocleadataforpowerbiandalsogroupcategories.py *)
(* Every column statement works row by row, each row on its own; the model   *)
(* follows one row of the table through the script.                          *)

\* Series.round(2) on a value in thousandths: the nearest hundredth.  A value
\* halfway between two hundredths has no exact binary representation, so the
\* float lies on either side and both neighbours are possible results.
round2(x) ==
    LET lo == (x \div 10) * 10
        r == x % 10
    IN IF r < 5 THEN {lo} ELSE IF r > 5 THEN {lo + 10} ELSE {lo, lo + 10}

\* mutant of charges_band: <= for <
charges_band_inclusive(val) ==
    IF val <= 5000 * 1000 THEN "<5,000"
    ELSE IF val <= 10000 * 1000 THEN "5,000-9,999"
    ELSE IF val <= 20000 * 1000 THEN "10,000-19,999"
    ELSE IF val <= 30000 * 1000 THEN "20,000-29,999"
    ELSE IF val <= 50000 * 1000 THEN "30,000-49,999"
    ELSE "50,000+"

\* val in thousandths of a dollar
charges_band(val) ==
    IF val < 5000 * 1000 THEN "<5,000"
    ELSE IF val < 10000 * 1000 THEN "5,000-9,999"
    ELSE IF val < 20000 * 1000 THEN "10,000-19,999"
    ELSE IF val < 30000 * 1000 THEN "20,000-29,999"
    ELSE IF val < 50000 * 1000 THEN "30,000-49,999"
    ELSE "50,000+"

\* val in tenths
bmi_category(val) ==
    IF val < 185 THEN "<18.5"
    ELSE IF val < 250 THEN "18.5-24.9"
    ELSE IF val < 300 THEN "25-29.9"
    ELSE IF val < 350 THEN "30-34.9"
    ELSE "35+"

age_group(val) ==
    IF val < 26 THEN "18-25"
    ELSE IF val < 36 THEN "26-35"
    ELSE IF val < 46 THEN "36-45"
    ELSE IF val < 56 THEN "46-55"
    ELSE IF val < 66 THEN "56-65"
    ELSE "66+"

\* mutant of age_group_label: one edge moved from 36 to 35
age_group_label_shifted(val) ==
    IF val < 26 THEN "Young Adult"
    ELSE IF val < 35 THEN "Adult"
    ELSE IF val < 46 THEN "Middle Age"
    ELSE IF val < 56 THEN "Senior"
    ELSE IF val < 66 THEN "Elder"
    ELSE "Super Senior"

age_group_label(val) ==
    IF val < 26 THEN "Young Adult"
    ELSE IF val < 36 THEN "Adult"
    ELSE IF val < 46 THEN "Middle Age"
    ELSE IF val < 56 THEN "Senior"
    ELSE IF val < 66 THEN "Elder"
    ELSE "Super Senior"

\* line 8
RoundCharges ==
    /\ pc = "round"
    /\ \E r \in round2(out_row.charges) : out_row' = [out_row EXCEPT !.charges = r]
    /\ pc' = "charges_band"
    /\ UNCHANGED <<dashVars, in_row, out_csv>>

\* line 25
ApplyChargesBand ==
    /\ pc = "charges_band"
    /\ out_row' = ("charges_band" :> charges_band(out_row.charges)) @@ out_row
    /\ pc' = "bmi_category"
    /\ UNCHANGED <<dashVars, in_row, out_csv>>

\* line 40
ApplyBmiCategory ==
    /\ pc = "bmi_category"
    /\ out_row' = ("bmi_category" :> bmi_category(out_row.bmi)) @@ out_row
    /\ pc' = "age_group"
    /\ UNCHANGED <<dashVars, in_row, out_csv>>

\* line 57
ApplyAgeGroup ==
    /\ pc = "age_group"
    /\ out_row' = ("age_group" :> age_group(out_row.age)) @@ out_row
    /\ pc' = "age_group_label"
    /\ UNCHANGED <<dashVars, in_row, out_csv>>

\* line 74
ApplyAgeGroupLabel ==
    /\ pc = "age_group_label"
    /\ out_row' = ("age_group_label" :> age_group_label(out_row.age)) @@ out_row
    /\ pc' = "to_csv"
    /\ UNCHANGED <<dashVars, in_row, out_csv>>

\* line 77
ToCsv ==
    /\ pc = "to_csv"
    /\ out_csv' = <<out_row>>
    /\ pc' = "done"
    /\ UNCHANGED <<dashVars, in_row, out_row>>

----------------------------------------------------------------------------
(* Bounds and input sets *)

MaxFilterRows == 2
MaxMetricsRows == 2
MaxBucketAge == 67
ChargeDelta == 6

Tables(U, n) == UNION {[1..k -> U] : k \in 1..n}

\* rows that differ in the two range columns, and rows that differ in the two
\* categorical columns
FilterRows ==
    {Row(a, b, "no", "northeast", 1000) : a \in {29, 30}, b \in {299, 300}}
      \cup {Row(30, 300, s, r, 1000) : s \in {"yes", "no"}, r \in {"northeast", "southwest"}}

\* rows on which the metrics tell apart: ages on and off a bin edge, charges
\* with a zero
MetricsRows ==
    {Row(a, 250, s, "northeast", c) : a \in {30, 45}, s \in {"yes", "no"},
                                      c \in {0, 1000, 3000}}

\* one row per region, among them a region the multiplier table does not list
CalcTable ==
    [i \in 1..Len(RegionOrder) |-> Row(20 + 10 * i, 250, "no", RegionOrder[i], 5000)]

\* what candidate i holds when it can be read
FileTable(i) == << Row(18 + i, 220, "no", "northeast", 4000 + i) >>

BandEdges == <<5000, 10000, 20000, 30000, 50000>>

BucketCharges ==
    {0} \cup {BandEdges[k] * 1000 + d : k \in 1..Len(BandEdges), d \in -ChargeDelta..ChargeDelta}

BucketRows ==
    [charges : BucketCharges, bmi : {184, 185, 300}, age : 18..MaxBucketAge]

IdleRow == [charges |-> 0, bmi |-> 0, age |-> 0]

----------------------------------------------------------------------------
(* Specifications *)

BatchIdle ==
    /\ pc = "idle"
    /\ in_row = IdleRow
    /\ out_row = IdleRow
    /\ out_csv = <<>>

\* before the first run of a dashboard session, with the files fs on disk
SessionStart(fs) ==
    /\ files = fs
    /\ cache = [loaded |-> FALSE, value |-> <<>>]
    /\ loaded_from = ""
    /\ load_msg = ""
    /\ df = <<>>
    /\ smoker_filter = "All"
    /\ region_filter = "All"
    /\ age_range = <<0, 0>>
    /\ bmi_range = <<0, 0>>
    /\ filtered_df = <<>>
    /\ smoker_multiplier = Zero
    /\ filtered_df_copy = <<>>
    /\ age_group_avg = <<>>
    /\ calc_age = CalcAgeDefault
    /\ calc_bmi = CalcBmiDefault
    /\ calc_smoker = "no"
    /\ calc_region = ""
    /\ calc_children = 0
    /\ button = FALSE
    /\ total_premium = 0
    /\ breakdown = NoBreakdown
    /\ risk_factors = <<>>

FileNames == {file_options[i] : i \in 1..Len(file_options)}

IndexOf(name) == CHOOSE i \in 1..Len(file_options) : file_options[i] = name

\* only the first candidate exists, and holds table t
OnlyFirst(t) ==
    [f \in FileNames |->
        IF f = file_options[1] THEN [status |-> "ok", table |-> t]
        ELSE [status |-> "absent", table |-> <<>>]]

\* any combination of readable, absent and malformed candidates
Init ==
    /\ \E st \in [FileNames -> {"ok", "absent", "malformed"}] :
         SessionStart([f \in FileNames |->
                         [status |-> st[f],
                          table |-> IF st[f] = "ok" THEN FileTable(IndexOf(f)) ELSE <<>>]])
    /\ BatchIdle

InitFilter ==
    /\ \E t \in Tables(FilterRows, MaxFilterRows) : SessionStart(OnlyFirst(t))
    /\ BatchIdle

InitMetrics ==
    /\ \E t \in Tables(MetricsRows, MaxMetricsRows) : SessionStart(OnlyFirst(t))
    /\ BatchIdle

InitCalc ==
    /\ SessionStart(OnlyFirst(CalcTable))
    /\ BatchIdle

InitBucket ==
    /\ SessionStart(OnlyFirst(CalcTable))
    /\ pc = "round"
    /\ in_row \in BucketRows
    /\ out_row = in_row
    /\ out_csv = <<>>

Next ==
    \/ FirstRun
    \/ ChangeSmokerFilter
    \/ ChangeRegionFilter
    \/ ChangeAgeRange
    \/ ChangeBmiRange
    \/ PressCalculate

NextCalc ==
    \/ FirstRun
    \/ ChangeCalcAge
    \/ ChangeCalcBmi
    \/ ChangeCalcSmoker
    \/ ChangeCalcRegion
    \/ ChangeCalcChildren
    \/ PressCalculate

NextBucket ==
    \/ RoundCharges
    \/ ApplyChargesBand
    \/ ApplyBmiCategory
    \/ ApplyAgeGroup
    \/ ApplyAgeGroupLabel
    \/ ToCsv

Spec == Init /\ [][Next]_vars
SpecFilter == InitFilter /\ [][Next]_vars
SpecMetrics == InitMetrics /\ [][Next]_vars
SpecCalc == InitCalc /\ [][NextCalc]_vars
SpecBucket == InitBucket /\ [][NextBucket]_vars


----------------------------------------------------------------------------
(* Properties *)

\* the rows of t that the criteria admit, in t's order
Admits(r, sf, rf, ar, br) ==
    /\ ar[1] <= r.age /\ r.age <= ar[2]
    /\ br[1] <= r.bmi /\ r.bmi <= br[2]
    /\ (sf = "All" \/ r.smoker = sf)
    /\ (rf = "All" \/ r.region = rf)

Admitted(t, sf, rf, ar, br) == SelectSeq(t, LAMBDA r : Admits(r, sf, rf, ar, br))

\* C1: after every run, filtered_df holds exactly the rows of the loaded
\* dataset whose age and bmi lie in the two ranges, ends included, and whose
\* smoker and region equal the filters that are not "All"; when no row
\* qualifies the run ends with an empty filtered_df and guarded metrics.
C1_FilterExact ==
    cache.loaded =>
        /\ filtered_df = Admitted(df, smoker_filter, region_filter, age_range, bmi_range)
        /\ filtered_df = <<>> => (smoker_multiplier = Zero /\ age_group_avg = <<>>)

\* a row is kept whose age is the upper end of the age range and whose bmi is
\* the lower end of the bmi range, while another row is filtered out
C1_Witness ==
    /\ cache.loaded
    /\ smoker_filter # "All"
    /\ Len(filtered_df) > 0
    /\ Len(filtered_df) < Len(df)
    /\ \E i \in 1..Len(filtered_df) :
         filtered_df[i].age = age_range[2] /\ filtered_df[i].bmi = bmi_range[1]
    /\ age_range[1] < age_range[2]

\* C9: no interaction changes the loaded dataset: the cached table and the
\* script's df stay the loaded table, and the filtered rows after a run are
\* those the run's own criteria admit from the loaded table, untouched by the
\* metric and age-group computations.
C9_LoadedDatasetImmutable ==
    [][cache.loaded =>
         /\ cache' = cache
         /\ df' = cache.value
         /\ filtered_df' = Admitted(cache.value, smoker_filter', region_filter',
                                    age_range', bmi_range')]_vars

\* the premium was calculated under narrowed filters, the age groups were
\* computed on the copy, and df is still the loaded table
C9_Witness ==
    /\ cache.loaded
    /\ button
    /\ region_filter # "All"
    /\ age_range[1] = age_range[2]
    /\ Len(filtered_df) > 0
    /\ Len(filtered_df) < Len(df)
    /\ Len(filtered_df_copy) = Len(filtered_df)
    /\ df = cache.value

ChargesOf(t, s) == Column(SelectSeq(t, LAMBDA r : r.smoker = s), "charges")

\* C4: the smoking multiplier never divides by zero; it is 0 on an empty
\* filtered set, the quotient of the two means when both groups are present
\* and the non-smokers' mean is positive, the smokers' mean when there is no
\* non-smoker row, and 0 when there are only non-smoker rows with a nonzero
\* mean.
C4_SmokerMultiplier ==
    cache.loaded =>
        LET yes == ChargesOf(filtered_df, "yes")
            no == ChargesOf(filtered_df, "no")
        IN /\ smoker_multiplier.d # 0
           /\ filtered_df = <<>> => FracEq(smoker_multiplier, Zero)
           /\ (yes # <<>> /\ no # <<>> /\ SumSeq(no) > 0) =>
                FracEq(smoker_multiplier, Frac(SumSeq(yes) * Len(no), Len(yes) * SumSeq(no)))
           /\ (filtered_df # <<>> /\ no = <<>>) =>
                FracEq(smoker_multiplier, Frac(SumSeq(yes), Len(yes)))
           /\ (yes = <<>> /\ no # <<>> /\ SumSeq(no) # 0) =>
                FracEq(smoker_multiplier, Zero)

\* both groups are present and the smokers' mean is three times the other
C4_Witness ==
    /\ cache.loaded
    /\ ChargesOf(filtered_df, "yes") # <<>>
    /\ ChargesOf(filtered_df, "no") # <<>>
    /\ FracEq(smoker_multiplier, Frac(3, 1))

ClaimedBin(age) ==
    IF age < 30 THEN "18-29"
    ELSE IF age < 40 THEN "30-39"
    ELSE IF age < 50 THEN "40-49"
    ELSE "50+"

\* C5: every filtered row with an age in 18..65 is put in the bin [18,30),
\* [30,40), [40,50) or [50,65] that contains its age, and the age-group means
\* have one entry per bin with a member and none for an empty bin.
C5_AgeBins ==
    LET inRange == {i \in 1..Len(filtered_df_copy) : filtered_df_copy[i].age \in 18..65} IN
    /\ \A i \in inRange : filtered_df_copy[i].age_group = ClaimedBin(filtered_df_copy[i].age)
    /\ {age_group_avg[k].age_group : k \in 1..Len(age_group_avg)}
         = {ClaimedBin(filtered_df_copy[i].age) : i \in inRange}

\* C3: load_data returns the table of the first candidate that can be read
\* and parsed, absent and malformed candidates alike being passed over, and
\* the sample data only when no candidate can.
C3_FirstParseable ==
    cache.loaded =>
        LET ok == {i \in 1..Len(file_options) : files[file_options[i]].status = "ok"} IN
        IF ok = {}
        THEN loaded_from = "sample" /\ cache.value = create_sample_data
        ELSE /\ loaded_from = file_options[SetMin(ok)]
             /\ cache.value = files[file_options[SetMin(ok)]].table

\* the premium total as the claim states it, in cents; (age - 39.2) * 250 is
\* 25 times the age's distance from 39.2 in tenths
ClaimedTotal(age, bmi, smoker, region, children) ==
    LET base == IF smoker = "yes" THEN 32050 ELSE 8434
        subtotal == base + 25 * (10 * age - 392)
                      + (IF bmi >= 300 THEN 4623 ELSE 0) + 150 * children
        mult == IF region = "southeast" THEN 115
                ELSE IF region = "northeast" THEN 108
                ELSE IF region = "northwest" THEN 102
                ELSE 100
    IN IF subtotal * mult < 100000 THEN 100000 ELSE subtotal * mult

\* C2: the calculated premium is max(1000, (base + age_adj + bmi_adj +
\* children_adj) * regional_multiplier) with the stated terms, is never below
\* 1000, and is 48498.95 for (60, 32, yes, southeast, 2).
C2_PremiumTotal ==
    button =>
        /\ total_premium = ClaimedTotal(calc_age, calc_bmi, calc_smoker, calc_region, calc_children)
        /\ total_premium >= 100000
        /\ (calc_age = 60 /\ calc_bmi = 320 /\ calc_smoker = "yes"
              /\ calc_region = "southeast" /\ calc_children = 2) => total_premium = 4849895

C2_Witness ==
    /\ button
    /\ calc_age = 60 /\ calc_bmi = 320 /\ calc_smoker = "yes"
    /\ calc_region = "southeast" /\ calc_children = 2
    /\ total_premium = 4849895

\* C8: the risk flags are the smoking flag iff smoker is yes, the BMI flag iff
\* bmi >= 30 and the age flag iff age >= 50, in that order, and the total is
\* the function of the five inputs whatever flags are shown.
C8_RiskFlags ==
    button =>
        /\ risk_factors = SelectSeq(<<"smoking", "bmi", "age">>,
                             LAMBDA f : \/ f = "smoking" /\ calc_smoker = "yes"
                                        \/ f = "bmi" /\ calc_bmi >= 300
                                        \/ f = "age" /\ calc_age >= 50)
        /\ total_premium = ClaimedTotal(calc_age, calc_bmi, calc_smoker, calc_region, calc_children)

\* at age 50 exactly, a smoker below the bmi threshold: two flags, in order
C8_Witness ==
    /\ button
    /\ calc_age = 50 /\ calc_bmi = 299 /\ calc_smoker = "yes"
    /\ risk_factors = <<"smoking", "age">>

Unfloored == (breakdown.base + breakdown.age_adj + breakdown.bmi_adj + breakdown.children_adj)
                 * breakdown.multiplier

\* C10: for every input the calculator's controls admit, subtotal times
\* multiplier is at least 3134 (dollars), so the floor of 1000 never changes
\* the total.
C10_FloorUnreachable ==
    button =>
        /\ Unfloored >= 313400
        /\ Unfloored >= 100000
        /\ total_premium = Unfloored

\* the minimum is reached: age 18, non-smoker, bmi below 30, no children,
\* multiplier 1.00
C10_Witness ==
    /\ button
    /\ calc_age = CalcAgeMin /\ calc_smoker = "no" /\ calc_bmi < 300 /\ calc_children = 0
    /\ breakdown.multiplier = 100
    /\ Unfloored = 313400
    /\ total_premium = 313400

BandLabels == << "<5,000", "5,000-9,999", "10,000-19,999", "20,000-29,999",
                 "30,000-49,999", "50,000+" >>

\* C6: the written charges are the input charges rounded to two decimals (a
\* whole number of cents at most half a cent away) and charges_band is the
\* label of the half-open interval that holds the rounded value, a boundary
\* value belonging to the band it starts.
C6_ChargesBand ==
    /\ pc \in {"bmi_category", "age_group", "age_group_label", "to_csv", "done"} =>
         /\ out_row.charges % 10 = 0
         /\ out_row.charges - in_row.charges \in -5..5
         /\ out_row.charges_band =
              BandLabels[1 + Cardinality({k \in 1..Len(BandEdges) :
                                            BandEdges[k] * 1000 <= out_row.charges})]
    /\ pc = "done" => out_csv = <<out_row>>

\* 4999.996 is rounded to 5000.00 and lands in the band that 5000 starts
C6_Witness ==
    /\ pc = "done"
    /\ in_row.charges = 4999996
    /\ out_csv[1].charges = 5000000
    /\ out_csv[1].charges_band = "5,000-9,999"

AgeEdges == <<26, 36, 46, 56, 66>>
NumericLabels == <<"18-25", "26-35", "36-45", "46-55", "56-65", "66+">>
QualitativeLabels == <<"Young Adult", "Adult", "Middle Age", "Senior", "Elder", "Super Senior">>

\* C7: age_group and age_group_label use the same edges <26, <36, <46, <56,
\* <66: the numeric label is the k-th one iff the qualitative label is the
\* k-th one, k being the bin of the age.
C7_SameBins ==
    pc \in {"to_csv", "done"} =>
        LET bin == 1 + Cardinality({e \in 1..Len(AgeEdges) : AgeEdges[e] <= out_row.age}) IN
        /\ \A k \in 1..Len(NumericLabels) :
             (out_row.age_group = NumericLabels[k]) <=> (out_row.age_group_label = QualitativeLabels[k])
        /\ out_row.age_group = NumericLabels[bin]

\* age 35, the last age of the second bin
C7_Witness ==
    /\ pc = "done"
    /\ out_csv[1].age = 35
    /\ out_csv[1].age_group = "26-35"
    /\ out_csv[1].age_group_label = "Adult"

=============================================================================
